---------------------------- MODULE Spec2Model ----------------------------
(***************************************************************************)
(* A model of src/program.py: the MIPS_CPU core (read_word, write_word,    *)
(* step) and the N64Emulator session around it (load_rom, reset, step,     *)
(* save_state, load_state), with the flag toggles of EmulatorGUI.          *)
(*                                                                         *)
(* Representation.                                                         *)
(*  - A Python int that holds a 32-bit quantity is a pair <<hi, lo>> of    *)
(*    16-bit halves (value hi * 2^16 + lo).  lo is always in 0..65535; hi  *)
(*    leaves 0..65535 exactly when the Python int leaves 0..2^32-1, so the *)
(*    code's "& 0xFFFFFFFF" is a real operation here (Mask32).             *)
(*  - A bytes / bytearray object is [len, nz]: its length and the function *)
(*    from the offsets of its nonzero bytes to those bytes.  Every other   *)
(*    offset below len holds 0.  Two such records are equal exactly when   *)
(*    the byte strings are.                                                *)
(*  - A Python list (the register file) is a function on 0..n-1.           *)
(***************************************************************************)
EXTENDS Integers, Sequences, FiniteSets, TLC

VARIABLES
    regs,             \* cpu.regs: list of ints, index 32 is the PC
    memory,           \* cpu.memory: bytearray
    cycles,           \* cpu.cycles
    rom,              \* emu.rom: <<>> for None, <<bytes>> once loaded
    running,          \* emu.running
    paused,           \* emu.paused
    plugins,          \* emu.plugins
    cheats,           \* emu.cheats
    mario_hat_color,  \* emu.mario_hat_color
    savfile,          \* the save-state file: <<>> while absent, <<blob>> once written
    cap,              \* history: the machine at the moment of the last save_state
    last,             \* history: the last operation, its inputs and its outcome
    nops              \* history: the number of operations performed so far

vars == <<regs, memory, cycles, rom, running, paused, plugins, cheats,
          mario_hat_color, savfile, cap, last, nops>>

cpuVars == <<regs, memory, cycles>>
emuVars == <<rom, running, paused, plugins, cheats, mario_hat_color>>

-----------------------------------------------------------------------------
(* Bounds of the exploration *)

\* sessions are followed for this many operations
MaxOps == 5
\* a processor on its own is followed for this many steps
MaxCpuOps == 2
\* a memory on its own is followed for this many reads and writes
MaxMemOps == 2

\* one more operation is performed
Tick == nops < MaxOps /\ nops' = nops + 1

-----------------------------------------------------------------------------
(* Python ints of 32-bit size *)

Min(a, b) == IF a < b THEN a ELSE b
Max(a, b) == IF a > b THEN a ELSE b

W(hi, lo) == <<hi, lo>>

\* x + d for a small machine integer d (|d| < 2^31 - 2^16): unbounded, as in Python
IntAdd(x, d) ==
    LET s == x[2] + d
    IN  <<x[1] + (s \div 65536), s % 65536>>

\* x + y for two ints: unbounded, as in Python
IntAddW(x, y) ==
    LET s == x[2] + y[2]
    IN  <<x[1] + y[1] + (s \div 65536), s % 65536>>

\* no reduction to 32 bits
Mask32_none(x) == x

\* x & 0xFFFFFFFF
Mask32(x) == <<x[1] % 65536, x[2]>>

\* (x >> shift) & (2^width - 1), for width <= 16 and x in 0..2^32-1
Bits(x, shift, width) ==
    IF shift >= 16
    THEN (x[1] \div (2 ^ (shift - 16))) % (2 ^ width)
    ELSE ((x[1] % (2 ^ shift)) * (2 ^ (16 - shift)) + (x[2] \div (2 ^ shift)))
             % (2 ^ width)

IsU32(x) == x[1] \in 0..65535 /\ x[2] \in 0..65535

-----------------------------------------------------------------------------
(* bytes and bytearray *)

ByteAt(b, o) == IF o \in DOMAIN b.nz THEN b.nz[o] ELSE 0

\* bytearray(n)
Zeros(n) == [len |-> n, nz |-> [o \in {} |-> 0]]

\* the bytes object holding the listed bytes
Bytes(seq) ==
    [len |-> Len(seq),
     nz  |-> [o \in {i - 1 : i \in {j \in 1..Len(seq) : seq[j] # 0}} |-> seq[o + 1]]]

\* b followed by zero bytes up to length n
Padded(b, n) == [len |-> Max(n, b.len), nz |-> b.nz]

\* b[i:j] for 0 <= i, 0 <= j (Python clamps both ends to the length)
GetSlice(b, i, j) ==
    LET lo == Min(i, b.len)
        hi == Max(Min(j, b.len), lo)
    IN  [len |-> hi - lo,
         nz  |-> [o \in {p - lo : p \in {q \in DOMAIN b.nz : q >= lo /\ q < hi}}
                    |-> b.nz[o + lo]]]

\* b[i:j] = rep on a bytearray: the slice is replaced by rep whatever rep's
\* length, so the bytes behind the slice move when the lengths differ
SetSlice(b, i, j, rep) ==
    LET lo    == Min(i, b.len)
        hi    == Max(Min(j, b.len), lo)
        shift == rep.len - (hi - lo)
        keep  == {q \in DOMAIN b.nz : q < lo}
        new   == {lo + r : r \in DOMAIN rep.nz}
        moved == {q + shift : q \in {p \in DOMAIN b.nz : p >= hi}}
    IN  [len |-> b.len + shift,
         nz  |-> [o \in keep \cup new \cup moved |->
                    IF o < lo THEN b.nz[o]
                    ELSE IF o < lo + rep.len THEN rep.nz[o - lo]
                    ELSE b.nz[o - shift]]]

\* int.from_bytes(b, 'big') for a 4-byte b
FromBytesBig(b) ==
    <<ByteAt(b, 0) * 256 + ByteAt(b, 1), ByteAt(b, 2) * 256 + ByteAt(b, 3)>>

\* value.to_bytes(4, 'big') for value in 0..2^32-1
ToBytesBig(value) ==
    Bytes(<<value[1] \div 256, value[1] % 256, value[2] \div 256, value[2] % 256>>)

-----------------------------------------------------------------------------
(* MIPS_CPU *)

KSEG_BASE    == W(32768, 0)     \* 0x80000000
RESET_VECTOR == W(49088, 0)     \* 0xBFC00000
MemSize      == 4 * 1024 * 1024

\* MIPS_CPU.__init__
NewRegs   == [i \in 0..32 |-> IF i = 32 THEN RESET_VECTOR ELSE W(0, 0)]
NewMemory == Zeros(MemSize)

\* addr -= 0x80000000, as a machine integer (negative below the base)
Phys(addr) == (addr[1] - KSEG_BASE[1]) * 65536 + (addr[2] - KSEG_BASE[2])

\* the bounds check of read_word and write_word
InRange(mem, a) == 0 <= a /\ a < mem.len - 3

read_word(mem, addr) ==
    LET a == Phys(addr)
    IN  IF InRange(mem, a)
        THEN FromBytesBig(GetSlice(mem, a, a + 4))
        ELSE W(0, 0)

\* write_word storing the word low byte first
write_word_little(mem, addr, value) ==
    LET a == Phys(addr)
    IN  IF InRange(mem, a)
        THEN SetSlice(mem, a, a + 4,
                 Bytes(<<value[2] % 256, value[2] \div 256,
                         value[1] % 256, value[1] \div 256>>))
        ELSE mem

\* write_word checking only the lower bound
write_word_unbounded(mem, addr, value) ==
    LET a == Phys(addr)
    IN  IF 0 <= a
        THEN SetSlice(mem, a, a + 4, ToBytesBig(value))
        ELSE mem

write_word(mem, addr, value) ==
    LET a == Phys(addr)
    IN  IF InRange(mem, a)
        THEN SetSlice(mem, a, a + 4, ToBytesBig(value))
        ELSE mem

\* the immediate taken without sign extension
SignedImm_unsigned(instr) == Bits(instr, 0, 16)

\* imm = instr & 0xFFFF; if imm & 0x8000: imm -= 0x10000
SignedImm(instr) ==
    LET imm == Bits(instr, 0, 16)
    IN  IF Bits(instr, 15, 1) # 0 THEN imm - 65536 ELSE imm

\* the dispatch taking any word with function field 0x20 for an add
Execute_functonly(r, mem, instr) ==
    LET opcode == Bits(instr, 26, 6)
        rs     == Bits(instr, 21, 5)
        rt     == Bits(instr, 16, 5)
        rd     == Bits(instr, 11, 5)
        funct  == Bits(instr, 0, 6)
    IN  IF opcode = 8
        THEN [r EXCEPT ![rt] = Mask32(IntAdd(r[rs], SignedImm(instr)))]
        ELSE IF opcode = 35
        THEN [r EXCEPT ![rt] =
                 read_word(mem, Mask32(IntAdd(r[rs], SignedImm(instr))))]
        ELSE IF funct = 32
        THEN [r EXCEPT ![rd] = Mask32(IntAddW(r[rs], r[rt]))]
        ELSE r

\* a dispatch whose load word ignores the immediate
Execute_lwnoimm(r, mem, instr) ==
    LET opcode == Bits(instr, 26, 6)
        rs     == Bits(instr, 21, 5)
        rt     == Bits(instr, 16, 5)
        rd     == Bits(instr, 11, 5)
        funct  == Bits(instr, 0, 6)
    IN  IF opcode = 8
        THEN [r EXCEPT ![rt] = Mask32(IntAdd(r[rs], SignedImm(instr)))]
        ELSE IF opcode = 35
        THEN [r EXCEPT ![rt] = read_word(mem, r[rs])]
        ELSE IF opcode = 0 /\ funct = 32
        THEN [r EXCEPT ![rd] = Mask32(IntAddW(r[rs], r[rt]))]
        ELSE r

\* a dispatch whose add writes the rt field's register
Execute_addrt(r, mem, instr) ==
    LET opcode == Bits(instr, 26, 6)
        rs     == Bits(instr, 21, 5)
        rt     == Bits(instr, 16, 5)
        rd     == Bits(instr, 11, 5)
        funct  == Bits(instr, 0, 6)
    IN  IF opcode = 8
        THEN [r EXCEPT ![rt] = Mask32(IntAdd(r[rs], SignedImm(instr)))]
        ELSE IF opcode = 35
        THEN [r EXCEPT ![rt] =
                 read_word(mem, Mask32(IntAdd(r[rs], SignedImm(instr))))]
        ELSE IF opcode = 0 /\ funct = 32
        THEN [r EXCEPT ![rt] = Mask32(IntAddW(r[rs], r[rt]))]
        ELSE r

\* a dispatch that keeps register 0 at zero
Execute_zeroreg(r, mem, instr) ==
    LET opcode == Bits(instr, 26, 6)
        rs     == Bits(instr, 21, 5)
        rt     == Bits(instr, 16, 5)
        rd     == Bits(instr, 11, 5)
        funct  == Bits(instr, 0, 6)
        r1     == IF opcode = 8
                  THEN [r EXCEPT ![rt] = Mask32(IntAdd(r[rs], SignedImm(instr)))]
                  ELSE IF opcode = 35
                  THEN [r EXCEPT ![rt] =
                           read_word(mem, Mask32(IntAdd(r[rs], SignedImm(instr))))]
                  ELSE IF opcode = 0 /\ funct = 32
                  THEN [r EXCEPT ![rd] = Mask32(IntAddW(r[rs], r[rt]))]
                  ELSE r
    IN  [r1 EXCEPT ![0] = W(0, 0)]

\* the register file after the dispatch of MIPS_CPU.step on the fetched word
Execute(r, mem, instr) ==
    LET opcode == Bits(instr, 26, 6)
        rs     == Bits(instr, 21, 5)
        rt     == Bits(instr, 16, 5)
        rd     == Bits(instr, 11, 5)
        funct  == Bits(instr, 0, 6)
    IN  IF opcode = 8
        THEN [r EXCEPT ![rt] = Mask32(IntAdd(r[rs], SignedImm(instr)))]
        ELSE IF opcode = 35
        THEN [r EXCEPT ![rt] =
                 read_word(mem, Mask32(IntAdd(r[rs], SignedImm(instr))))]
        ELSE IF opcode = 0 /\ funct = 32
        THEN [r EXCEPT ![rd] = Mask32(IntAddW(r[rs], r[rt]))]
        ELSE r

\* a processor step whose PC is not reduced to 32 bits
cpu_step_nomask(r, mem, cyc) ==
    LET pc    == r[32]
        instr == read_word(mem, pc)
        r1    == Execute(r, mem, instr)
    IN  [regs   |-> [r1 EXCEPT ![32] = IntAdd(pc, 4)],
         memory |-> mem,
         cycles |-> cyc + 1]

\* MIPS_CPU.step on a register file that has index 32
cpu_step(r, mem, cyc) ==
    LET pc    == r[32]
        instr == read_word(mem, pc)
        r1    == Execute(r, mem, instr)
    IN  [regs   |-> [r1 EXCEPT ![32] = Mask32(IntAdd(pc, 4))],
         memory |-> mem,
         cycles |-> cyc + 1]

-----------------------------------------------------------------------------
(* N64Emulator *)

ENTRY_PC  == W(32768, 0)        \* 0x80000000, "Jump to RAM after boot"
BOOT_SIZE == 4096               \* 0x1000
COIN_ADDR   == W(32816, 0)      \* 0x80300000
HEALTH_ADDR == W(32819, 45598)  \* 0x8033B21E

PluginNames == {"Personalizer", "Rediscovered", "Wonder Graphics", "Debugger"}
CheatNames  == {"Infinite Health"}
HatColors   == {"Red", "Blue", "Green"}

\* Images offered to load_rom.
\* 4096 bytes: ADDI r1, r0, 5 (0x20010005); ADD r2, r1, r1 (0x00211020); zeros
ImgAddi  == Padded(Bytes(<<32, 1, 0, 5, 0, 33, 16, 32>>), 4096)
\* 8 bytes: LW r3, 0(r0) (0x8C030000); opcode 0x0F (0x3C010203)
ImgShort == Bytes(<<140, 3, 0, 0, 60, 1, 2, 3>>)
\* 4100 bytes: ADDI r0, r0, 1 (0x20000001), then bytes on both sides of offset 4096
ImgLong  ==
    SetSlice(Padded(Bytes(<<32, 0, 0, 1>>), 4100), 4095, 4100, Bytes(<<9, 10, 11, 12, 13>>))
\* a file of no bytes
ImgEmpty == Bytes(<<>>)
Images   == {ImgAddi, ImgShort, ImgLong, ImgEmpty}

\* "if self.rom:" is false for None and for an empty bytes object
RomPresent(r) == r # <<>> /\ r[1].len > 0

\* a boot transfer of the whole image, however long
BootTransfer_whole(mem, image) ==
    SetSlice(mem, 0, BOOT_SIZE, image)

\* memory[0:0x1000] = rom[0:0x1000]
BootTransfer(mem, image) ==
    SetSlice(mem, 0, BOOT_SIZE, GetSlice(image, 0, BOOT_SIZE))

\* Files that were not written by save_state and that load_state may be given:
\* a pickle of two components, one whose register list has 32 entries, and
\* one whose memory buffer has another length
ForeignBlobs ==
    { <<NewRegs, NewMemory>>,
      <<[i \in 0..31 |-> W(0, 0)], NewMemory, "Red">>,
      <<NewRegs, Zeros(MemSize + 1), "Blue">> }

\* the session fields as N64Emulator.__init__ leaves them
EmuInit ==
    /\ rom = <<>>
    /\ running = FALSE
    /\ paused = FALSE
    /\ plugins = [p \in PluginNames |-> p = "Personalizer"]
    /\ cheats = [c \in CheatNames |-> FALSE]
    /\ mario_hat_color = "Red"
    /\ savfile = <<>>
    /\ cap = <<>>
    /\ last = [op |-> "init", exc |-> "none"]
    /\ nops = 0

\* N64Emulator.__init__
Init ==
    /\ regs = NewRegs
    /\ memory = NewMemory
    /\ cycles = 0
    /\ EmuInit

\* N64Emulator.load_rom with the file's bytes
load_rom(image) ==
    /\ Tick
    /\ rom' = <<image>>
    /\ memory' = BootTransfer(memory, image)
    /\ IF 32 \in DOMAIN regs
       THEN /\ regs' = [regs EXCEPT ![32] = ENTRY_PC]
            /\ last' = [op |-> "load_rom", exc |-> "none"]
       ELSE /\ regs' = regs
            /\ last' = [op |-> "load_rom", exc |-> "IndexError"]
    /\ UNCHANGED <<cycles, running, paused, plugins, cheats, mario_hat_color,
                   savfile, cap>>

\* N64Emulator.reset
reset ==
    /\ Tick
    /\ regs' = NewRegs
    /\ memory' = IF RomPresent(rom) THEN BootTransfer(NewMemory, rom[1])
                                    ELSE NewMemory
    /\ cycles' = 0
    /\ running' = TRUE
    /\ last' = [op |-> "reset", exc |-> "none", dirty |-> memory' # memory]
    /\ UNCHANGED <<rom, paused, plugins, cheats, mario_hat_color, savfile, cap>>

\* the memory after the two poking mutators of N64Emulator.step
Pokes(mem, cyc) ==
    LET m1 == IF plugins["Rediscovered"] /\ cyc = 5000
              THEN write_word(mem, COIN_ADDR, W(0, 1)) ELSE mem
    IN  IF cheats["Infinite Health"]
        THEN write_word(m1, HEALTH_ADDR, W(0, 8)) ELSE m1

\* the processor with the cheat's value put in register 30 as well
Mutators_register(c) ==
    [regs   |-> IF cheats["Infinite Health"]
                THEN [c.regs EXCEPT ![30] = W(0, 8)] ELSE c.regs,
     memory |-> Pokes(c.memory, c.cycles),
     cycles |-> c.cycles]

\* the processor after the poking mutators: they go through write_word only
Mutators(c) ==
    [regs |-> c.regs, memory |-> Pokes(c.memory, c.cycles), cycles |-> c.cycles]

\* a session step that does not look at the pause flag
step_ignorepause ==
    /\ Tick
    /\ IF ~running
       THEN /\ last' = [op |-> "step", exc |-> "none", ran |-> FALSE]
            /\ UNCHANGED <<cpuVars, emuVars, savfile, cap>>
       ELSE IF 32 \notin DOMAIN regs
       THEN /\ last' = [op |-> "step", exc |-> "IndexError", ran |-> FALSE]
            /\ UNCHANGED <<cpuVars, emuVars, savfile, cap>>
       ELSE /\ LET c == Mutators(cpu_step(regs, memory, cycles))
               IN  /\ regs' = c.regs
                   /\ cycles' = c.cycles
                   /\ memory' = c.memory
                   /\ IF plugins["Personalizer"] /\ c.cycles % 1000 = 0
                      THEN mario_hat_color' \in HatColors
                      ELSE mario_hat_color' = mario_hat_color
                   /\ last' = [op |-> "step", exc |-> "none", ran |-> TRUE,
                               instr |-> read_word(memory, regs[32])]
            /\ UNCHANGED <<rom, running, paused, plugins, cheats, savfile, cap>>

\* N64Emulator.step
step ==
    /\ Tick
    /\ IF ~running \/ paused
       THEN /\ last' = [op |-> "step", exc |-> "none", ran |-> FALSE]
            /\ UNCHANGED <<cpuVars, emuVars, savfile, cap>>
       ELSE IF 32 \notin DOMAIN regs
       THEN /\ last' = [op |-> "step", exc |-> "IndexError", ran |-> FALSE]
            /\ UNCHANGED <<cpuVars, emuVars, savfile, cap>>
       ELSE /\ LET c == Mutators(cpu_step(regs, memory, cycles))
               IN  /\ regs' = c.regs
                   /\ cycles' = c.cycles
                   /\ memory' = c.memory
                   /\ IF plugins["Personalizer"] /\ c.cycles % 1000 = 0
                      THEN mario_hat_color' \in HatColors
                      ELSE mario_hat_color' = mario_hat_color
                   /\ last' = [op |-> "step", exc |-> "none", ran |-> TRUE,
                               instr |-> read_word(memory, regs[32])]
            /\ UNCHANGED <<rom, running, paused, plugins, cheats, savfile, cap>>

\* a snapshot of the general-purpose registers only
Snapshot_gprs == <<[i \in 0..31 |-> regs[i]], memory, mario_hat_color>>

\* the tuple save_state pickles
Snapshot == <<regs, memory, mario_hat_color>>

\* N64Emulator.save_state
save_state ==
    /\ Tick
    /\ savfile' = <<Snapshot>>
    /\ cap' = [regs |-> regs, memory |-> memory,
               mario_hat_color |-> mario_hat_color, cycles |-> cycles]
    /\ last' = [op |-> "save_state", exc |-> "none"]
    /\ UNCHANGED <<cpuVars, emuVars>>

\* the three-target assignment of N64Emulator.load_state
Unpack(blob, src) ==
    IF Len(blob) # 3
    THEN /\ last' = [op |-> "load_state", exc |-> "ValueError", src |-> src]
         /\ UNCHANGED <<regs, memory, mario_hat_color>>
    ELSE /\ regs' = blob[1]
         /\ memory' = blob[2]
         /\ mario_hat_color' = blob[3]
         /\ last' = [op |-> "load_state", exc |-> "none", src |-> src]

\* a load_state that also resumes a paused session
load_state_saved_resume ==
    /\ Tick
    /\ savfile # <<>>
    /\ Unpack(savfile[1], "saved")
    /\ paused' = FALSE
    /\ UNCHANGED <<cycles, rom, running, plugins, cheats, savfile, cap>>

\* N64Emulator.load_state of the file save_state wrote
load_state_saved ==
    /\ Tick
    /\ savfile # <<>>
    /\ Unpack(savfile[1], "saved")
    /\ UNCHANGED <<cycles, rom, running, paused, plugins, cheats, savfile, cap>>

\* N64Emulator.load_state of another file
load_state_foreign(blob) ==
    /\ Tick
    /\ Unpack(blob, "foreign")
    /\ UNCHANGED <<cycles, rom, running, paused, plugins, cheats, savfile, cap>>

\* EmulatorGUI.toggle_plugin
toggle_plugin(p) ==
    /\ Tick
    /\ plugins' = [plugins EXCEPT ![p] = ~plugins[p]]
    /\ last' = [op |-> "toggle_plugin", exc |-> "none"]
    /\ UNCHANGED <<cpuVars, rom, running, paused, cheats, mario_hat_color,
                   savfile, cap>>

\* EmulatorGUI.toggle_cheat
toggle_cheat(c) ==
    /\ Tick
    /\ cheats' = [cheats EXCEPT ![c] = ~cheats[c]]
    /\ last' = [op |-> "toggle_cheat", exc |-> "none"]
    /\ UNCHANGED <<cpuVars, rom, running, paused, plugins, mario_hat_color,
                   savfile, cap>>

\* EmulatorGUI.toggle_pause
toggle_pause ==
    /\ Tick
    /\ paused' = ~paused
    /\ last' = [op |-> "toggle_pause", exc |-> "none"]
    /\ UNCHANGED <<cpuVars, rom, running, plugins, cheats, mario_hat_color,
                   savfile, cap>>

Next ==
    \/ \E image \in Images : load_rom(image)
    \/ reset
    \/ step
    \/ save_state
    \/ load_state_saved
    \/ \E blob \in ForeignBlobs : load_state_foreign(blob)
    \/ \E p \in PluginNames : toggle_plugin(p)
    \/ \E c \in CheatNames : toggle_cheat(c)
    \/ toggle_pause

Spec == Init /\ [][Next]_vars

-----------------------------------------------------------------------------
(* The session late in a run, where the cycle-count mutators act.          *)

\* 4096 bytes: zeros, then ADDI r1, r0, 5 at offset 3992 and ADD r2, r1, r1
\* at offset 3996, the words fetched in the steps that end cycles 999 and 1000
ImgLate ==
    SetSlice(Zeros(4096), 3992, 4000, Bytes(<<32, 1, 0, 5, 0, 33, 16, 32>>))

\* the processor after reset(), load_rom(ImgLate) and n executed steps with
\* the cheat off, for n = 998 (the image's two instructions are next) and for
\* n = 4998 (both have run)
LateRegs(n) ==
    [i \in 0..32 |->
        IF i = 32 THEN Mask32(IntAdd(ENTRY_PC, 4 * n))
        ELSE IF i = 1 /\ n > 998 THEN W(0, 5)
        ELSE IF i = 2 /\ n > 999 THEN W(0, 10)
        ELSE W(0, 0)]

LateCycles == {998, 4998}

\* such a session, with the flags toggled to any combination since; the hat
\* has been drawn at cycles 1000, 2000, ... in the longer run
InitLate ==
    /\ \E n \in LateCycles :
          /\ cycles = n
          /\ regs = LateRegs(n)
          /\ mario_hat_color \in (IF n < 1000 THEN {"Red"} ELSE HatColors)
    /\ memory = BootTransfer(NewMemory, ImgLate)
    /\ rom = <<ImgLate>>
    /\ running = TRUE
    /\ paused = FALSE
    /\ plugins \in [PluginNames -> BOOLEAN]
    /\ cheats \in [CheatNames -> BOOLEAN]
    /\ savfile = <<>>
    /\ cap = <<>>
    /\ last = [op |-> "init", exc |-> "none"]
    /\ nops = 0

NextLate == step

SpecLate == InitLate /\ [][NextLate]_vars

-----------------------------------------------------------------------------
(* a session driven by load_rom, reset and step only *)

\* A 4096-byte image whose first words are addi r1, r0, -1; add r31, r1, r1;
\* addi r31, r31, 0x7FFF
ImgNeg ==
    Padded(Bytes(<<32, 1, 255, 255, 0, 33, 248, 32, 35, 255, 127, 255>>), 4096)

RunImages == {ImgNeg, ImgAddi, ImgShort, ImgLong}

NextRun ==
    \/ \E image \in RunImages : load_rom(image)
    \/ reset
    \/ step

SpecRun == Init /\ [][NextRun]_vars

-----------------------------------------------------------------------------
(* The processor on its own: MIPS_CPU.step from the register files and     *)
(* memories a session can hand it (load_state installs any of them).       *)

\* instruction words; the comment gives opcode and fields
ADDI_r2_r1_1      == W(8226, 1)       \* 0x20220001  rt=2 rs=1 imm=1
ADDI_r2_r1_m32768 == W(8226, 32768)   \* 0x20228000  rt=2 rs=1 imm=0x8000
ADDI_r1_r1_m1     == W(8225, 65535)   \* 0x2021FFFF  rt=1 rs=1 imm=0xFFFF
ADDI_r0_r0_5      == W(8192, 5)       \* 0x20000005  rt=0 rs=0 imm=5
ADDI_r31_r2_32767 == W(8287, 32767)   \* 0x205F7FFF  rt=31 rs=2 imm=0x7FFF
LW_r2_8_r1        == W(35874, 8)      \* 0x8C220008  rt=2 rs=1 imm=8
LW_r2_m4_r1       == W(35874, 65532)  \* 0x8C22FFFC  rt=2 rs=1 imm=0xFFFC
LW_r0_8_r1        == W(35872, 8)      \* 0x8C200008  rt=0 rs=1 imm=8
ADD_r3_r1_r2      == W(34, 6176)      \* 0x00221820  rd=3 rs=1 rt=2 funct=0x20
ADD_r0_r1_r2      == W(34, 32)        \* 0x00220020  rd=0 rs=1 rt=2 funct=0x20
ADD_r1_r1_r1      == W(33, 2080)      \* 0x00210820  rd=1 rs=1 rt=1 funct=0x20
ADD_r3_r0_r0      == W(0, 6176)       \* 0x00001820  rd=3 rs=0 rt=0 funct=0x20
SUB_r3_r1_r2      == W(34, 6178)      \* 0x00221822  opcode 0, funct=0x22
LUI_r1            == W(15361, 4660)   \* 0x3C011234  opcode 0x0F
SW_r2_8_r1        == W(44066, 8)      \* 0xAC220008  opcode 0x2B
J_32              == W(2082, 32)      \* 0x08220020  opcode 0x02, low bits 0x20
REGIMM_32         == W(1058, 32)      \* 0x04220020  opcode 0x01, low bits 0x20
ALLONES           == W(65535, 65535)  \* 0xFFFFFFFF  opcode 0x3F
NOP               == W(0, 0)          \* 0x00000000  opcode 0, funct 0

InstrWords ==
    { ADDI_r2_r1_1, ADDI_r2_r1_m32768, ADDI_r1_r1_m1, ADDI_r0_r0_5,
      ADDI_r31_r2_32767, LW_r2_8_r1, LW_r2_m4_r1, LW_r0_8_r1,
      ADD_r3_r1_r2, ADD_r0_r1_r2, ADD_r1_r1_r1,
      SUB_r3_r1_r2, LUI_r1, SW_r2_8_r1, J_32, REGIMM_32, ALLONES, NOP }

DATA_WORD == W(57005, 48879)          \* 0xDEADBEEF

\* a memory whose first three words are instr, ADD r3, r0, r0 and DATA_WORD
ProgramMemory(instr) ==
    SetSlice(SetSlice(SetSlice(NewMemory, 0, 4, ToBytesBig(instr)),
                      4, 8, ToBytesBig(ADD_r3_r0_r0)),
             8, 12, ToBytesBig(DATA_WORD))

\* program counters: the entry, the reset vector (outside RAM) and the last word
CpuPCs == { ENTRY_PC, RESET_VECTOR, W(65535, 65532) }
\* values of r1: 0, 1, 0xFFFFFFFF, 0x80000000, 0x80000004, 0x00010000
CpuR1 == { W(0, 0), W(0, 1), W(65535, 65535), W(32768, 0), W(32768, 4), W(1, 0) }
\* values of r2: 0, 1, 0xFFFFFFFF
CpuR2 == { W(0, 0), W(0, 1), W(65535, 65535) }

InitCpu ==
    /\ \E pc \in CpuPCs, v1 \in CpuR1, v2 \in CpuR2 :
           regs = [NewRegs EXCEPT ![32] = pc, ![1] = v1, ![2] = v2]
    /\ \E instr \in InstrWords : memory = ProgramMemory(instr)
    /\ cycles = 0
    /\ EmuInit

\* MIPS_CPU.step, called on the processor directly
cpu_step_op ==
    /\ nops < MaxCpuOps
    /\ nops' = nops + 1
    /\ LET c == cpu_step(regs, memory, cycles)
       IN  /\ regs' = c.regs
           /\ memory' = c.memory
           /\ cycles' = c.cycles
    /\ last' = [op |-> "cpu_step", exc |-> "none",
                instr |-> read_word(memory, regs[32]),
                regs |-> regs, memory |-> memory, cycles |-> cycles]
    /\ UNCHANGED <<emuVars, savfile, cap>>

NextCpu == cpu_step_op

SpecCpu == InitCpu /\ [][NextCpu]_vars

-----------------------------------------------------------------------------
(* The memory on its own: read_word and write_word at chosen addresses.    *)

\* the memory after load_rom of the 8-byte image: 4088 bytes shorter
ShrunkMemory == BootTransfer(NewMemory, ImgShort)
MemMemories  == { NewMemory, ShrunkMemory }

\* the virtual address of physical offset off
Vaddr(off) == Mask32(IntAdd(KSEG_BASE, off))

\* addresses: below the base, at the start of RAM (aligned and not), around
\* the end of each memory, and above RAM
MemAddrs ==
    { W(0, 0), Vaddr(-1), Vaddr(0), Vaddr(1), Vaddr(6),
      Vaddr(ShrunkMemory.len - 4), Vaddr(ShrunkMemory.len - 3),
      Vaddr(ShrunkMemory.len - 1), Vaddr(ShrunkMemory.len),
      Vaddr(MemSize - 4), Vaddr(MemSize - 3), Vaddr(MemSize - 1), Vaddr(MemSize),
      RESET_VECTOR, W(65535, 65535) }
\* values: 0, 1, 0x12345678, 0xFFFFFFFF
MemValues == { W(0, 0), W(0, 1), W(4660, 22136), W(65535, 65535) }

InitMem ==
    /\ regs = NewRegs
    /\ memory \in MemMemories
    /\ cycles = 0
    /\ EmuInit

\* MIPS_CPU.read_word, called on the processor directly
read_word_op(addr) ==
    /\ nops < MaxMemOps
    /\ nops' = nops + 1
    /\ last' = [op |-> "read_word", exc |-> "none", addr |-> addr,
                ret |-> read_word(memory, addr)]
    /\ UNCHANGED <<cpuVars, emuVars, savfile, cap>>

\* MIPS_CPU.write_word, called on the processor directly
write_word_op(addr, value) ==
    /\ nops < MaxMemOps
    /\ nops' = nops + 1
    /\ memory' = write_word(memory, addr, value)
    /\ last' = [op |-> "write_word", exc |-> "none", addr |-> addr,
                value |-> value, memory |-> memory]
    /\ UNCHANGED <<regs, cycles, emuVars, savfile, cap>>

NextMem ==
    \/ \E addr \in MemAddrs : read_word_op(addr)
    \/ \E addr \in MemAddrs, value \in MemValues : write_word_op(addr, value)

SpecMem == InitMem /\ [][NextMem]_vars

-----------------------------------------------------------------------------
(* What the claims are stated with: 32-bit arithmetic and instruction      *)
(* fields as the specification words them, computed without the            *)
(* operators of the model above.                                           *)

\* (a + b) mod 2^32 on two 32-bit words
Add32(a, b) ==
    LET lo    == a[2] + b[2]
        carry == IF lo >= 65536 THEN 1 ELSE 0
        hi    == a[1] + b[1] + carry
    IN  <<IF hi >= 65536 THEN hi - 65536 ELSE hi,
          IF lo >= 65536 THEN lo - 65536 ELSE lo>>

\* sign_extend16(imm) as a 32-bit two's complement word
SignExt16(imm) == <<IF imm >= 32768 THEN 65535 ELSE 0, imm>>

OpcodeOf(instr) == instr[1] \div 1024          \* bits 31..26
RsOf(instr)     == (instr[1] \div 32) % 32     \* bits 25..21
RtOf(instr)     == instr[1] % 32               \* bits 20..16
RdOf(instr)     == instr[2] \div 2048          \* bits 15..11
ImmOf(instr)    == instr[2]                    \* bits 15..0
FunctOf(instr)  == instr[2] % 64               \* bits 5..0

\* the physical offset vaddr - KSEG_BASE
OffsetOf(vaddr) == (vaddr[1] - 32768) * 65536 + vaddr[2]

\* the last operation was a load_state of the file save_state wrote
RestoredSaved ==
    last.op = "load_state" /\ last.src = "saved" /\ last.exc = "none"

-----------------------------------------------------------------------------
(* C1..C10 *)

\* C1: after load_image(img) followed by reset(), PC equals the post-boot
\* entry address 0x80000000 that load_image sets, not the reset vector.
C1_ResetAfterLoadAtEntry ==
    (last.op = "reset" /\ rom # <<>>) => regs[32] = ENTRY_PC

\* C2: after snapshot() at cycle count c, any number of executed steps and a
\* restore of that snapshot, the Cycle Counter reads c again.
C2_RestoreRestoresCycles ==
    RestoredSaved => cycles = cap.cycles

\* C3: memory has a fixed size: load_image, reset and step on a memory of the
\* configured size leave it at that size, and load_image changes only the
\* offsets [0, 4096): every byte at offset >= 4096 keeps value and position.
C3_MemoryFixedSize ==
    [][ /\ memory.len = MemSize
        /\ (\E image \in Images : load_rom(image)) \/ reset \/ step
        => /\ memory'.len = MemSize
           /\ (\E image \in Images : load_rom(image))
                 => GetSlice(memory', BOOT_SIZE, memory'.len)
                      = GetSlice(memory, BOOT_SIZE, memory.len) ]_vars

\* C4: from a fresh session, load_image of the 4096-byte image whose first
\* word is ADDI rs=0 rt=1 imm=5 and then one step() leave regs[1] = 5, PC =
\* entry address + 4 and Cycle Counter = 1.
C4_AddiScenario ==
    (nops = 2 /\ last.op = "step" /\ rom = <<ImgAddi>>)
        => /\ regs[1] = W(0, 5)
           /\ regs[32] = Add32(ENTRY_PC, W(0, 4))
           /\ cycles = 1

\* C5 as stated: for every value v and every vaddr whose offset lies in
\* [0, size), write32(vaddr, v) immediately followed by read32(vaddr)
\* returns v, the last three offsets size-3..size-1 included.
C5_ReadBackWholeRange ==
    (/\ last.op = "write_word"
     /\ 0 <= OffsetOf(last.addr)
     /\ OffsetOf(last.addr) < last.memory.len)
        => read_word(memory, last.addr) = last.value

\* C5 as amended: for every value v and every vaddr whose offset lies in
\* [0, size-4], write32(vaddr, v) immediately followed by read32(vaddr)
\* returns v, unaligned addresses included; at the offsets size-3..size-1
\* the write is dropped and the read returns 0.
C5_ReadBackInRange ==
    /\ (/\ last.op = "write_word"
        /\ 0 <= OffsetOf(last.addr)
        /\ OffsetOf(last.addr) <= last.memory.len - 4)
          => /\ read_word(memory, last.addr) = last.value
             /\ memory.len = last.memory.len
    /\ (/\ last.op = "write_word"
        /\ last.memory.len - 4 < OffsetOf(last.addr)
        /\ OffsetOf(last.addr) < last.memory.len)
          => /\ read_word(memory, last.addr) = W(0, 0)
             /\ memory = last.memory

\* a nonzero word was written at the last offset that holds a whole word
C5_Witness ==
    /\ last.op = "write_word"
    /\ OffsetOf(last.addr) = last.memory.len - 4
    /\ last.value = W(4660, 22136)
    /\ read_word(memory, last.addr) = W(4660, 22136)

\* C6: for every vaddr outside [KSEG_BASE, KSEG_BASE + size), read32 returns
\* 0 and write32 leaves every memory byte unchanged; neither raises.
C6_OutOfRange ==
    /\ (/\ last.op = "read_word"
        /\ (OffsetOf(last.addr) < 0 \/ OffsetOf(last.addr) >= memory.len))
          => last.ret = W(0, 0) /\ last.exc = "none"
    /\ (/\ last.op = "write_word"
        /\ (OffsetOf(last.addr) < 0 \/ OffsetOf(last.addr) >= last.memory.len))
          => memory = last.memory /\ last.exc = "none"

\* a nonzero word was written at the first address above RAM
C6_Witness ==
    /\ last.op = "write_word"
    /\ OffsetOf(last.addr) = last.memory.len
    /\ last.value = W(65535, 65535)
    /\ memory = last.memory

\* C7: restoring the snapshot just captured, once or repeatedly, with or
\* without steps in between, leaves all 33 registers, every memory byte and
\* the cosmetic field equal to their values at capture.
C7_RestoreExact ==
    RestoredSaved
        => /\ regs = cap.regs
           /\ memory = cap.memory
           /\ mario_hat_color = cap.mario_hat_color

\* a restore after the machine had moved on from the captured state: steps
\* were executed and an image was loaded since the capture
C7_Witness ==
    /\ RestoredSaved
    /\ cycles > cap.cycles
    /\ rom # <<>> /\ BootTransfer(NewMemory, rom[1]) # cap.memory
    /\ regs = cap.regs

\* a register file of 33 entries, a memory of the configured size
WellShaped(blob) ==
    /\ Len(blob) = 3
    /\ DOMAIN blob[1] = 0..32
    /\ blob[2].len = MemSize

\* C8: restoring a snapshot of the wrong size or shape fails with an error
\* and applies nothing: registers, memory and cosmetic field keep their
\* prior values.
C8_MismatchRejected ==
    [][ (\E blob \in ForeignBlobs :
            ~WellShaped(blob) /\ load_state_foreign(blob))
        => /\ last'.exc # "none"
           /\ regs' = regs
           /\ memory' = memory
           /\ mario_hat_color' = mario_hat_color ]_vars

\* the fetched word has no defined effect
UnknownInstr(instr) ==
    /\ OpcodeOf(instr) # 8
    /\ OpcodeOf(instr) # 35
    /\ ~(OpcodeOf(instr) = 0 /\ FunctOf(instr) = 32)

\* C9: a processor step() whose fetched word is none of add-immediate, load
\* word and add leaves the 32 general-purpose registers and all memory
\* unchanged; only PC (+4) and the Cycle Counter (+1) change, with no error.
C9_UnknownOpcodeFrame ==
    (last.op = "cpu_step" /\ UnknownInstr(last.instr))
        => /\ \A i \in 0..31 : regs[i] = last.regs[i]
           /\ memory = last.memory
           /\ regs[32] = Add32(last.regs[32], W(0, 4))
           /\ cycles = last.cycles + 1
           /\ last.exc = "none"

\* a word of opcode 0x02 whose low six bits are 0x20 was fetched and stepped
\* over, with nonzero r1 and r2
C9_Witness ==
    /\ last.op = "cpu_step"
    /\ last.instr = J_32
    /\ last.regs[1] = W(0, 1) /\ last.regs[2] = W(0, 1)
    /\ regs[0] = W(0, 0)

\* C10: add-immediate sets regs[rt] = (regs[rs] + sign_extend16(imm)) mod
\* 2^32: 0xFFFFFFFF + 1 gives 0, imm = 0x8000 is added as -32768, no fault.
C10_AddImmediate ==
    (last.op = "cpu_step" /\ OpcodeOf(last.instr) = 8)
        => LET rs  == RsOf(last.instr)
               rt  == RtOf(last.instr)
               imm == ImmOf(last.instr)
           IN  /\ regs[rt] = Add32(last.regs[rs], SignExt16(imm))
               /\ (last.regs[rs] = W(65535, 65535) /\ imm = 1)
                     => regs[rt] = W(0, 0)
               /\ (last.regs[rs] = W(1, 0) /\ imm = 32768)
                     => regs[rt] = W(0, 32768)
               /\ IsU32(regs[rt])
               /\ last.exc = "none"

\* 0xFFFFFFFF + 1 was executed and wrapped to 0
C10_Witness ==
    /\ last.op = "cpu_step"
    /\ last.instr = ADDI_r2_r1_1
    /\ last.regs[1] = W(65535, 65535)
    /\ regs[2] = W(0, 0)

-----------------------------------------------------------------------------
(* C11..C20 *)

\* C11: the post-step mutators never alter PC, the general-purpose registers
\* or the Cycle Counter: for every executed session step, under every
\* combination of plugin and cheat flags, PC after = (PC before + 4) mod 2^32,
\* cycles after = cycles before + 1, and the registers are those the core
\* instruction alone produced.
C11_MutatorsFrame ==
    [][ (step /\ running /\ ~paused /\ 32 \in DOMAIN regs)
        => /\ regs'[32] = Add32(regs[32], W(0, 4))
           /\ cycles' = cycles + 1
           /\ regs' = cpu_step(regs, memory, cycles).regs
           /\ last'.ran ]_vars

\* the step that reached cycle 5000 was executed with both poking mutators
\* and the hat plugin on: the coin word and the health word are written
C11_Witness ==
    /\ last.op = "step" /\ last.ran
    /\ cycles = 5000
    /\ plugins["Personalizer"]
    /\ plugins["Rediscovered"]
    /\ cheats["Infinite Health"]
    /\ read_word(memory, COIN_ADDR) = W(0, 1)
    /\ read_word(memory, HEALTH_ADDR) = W(0, 8)
    /\ mario_hat_color = "Blue"
    /\ regs[2] = W(0, 10)

\* C12: after load_image(img) followed by reset(), memory offsets [0,4096)
\* equal img[0:4096] and every other memory byte is zero, whatever the memory
\* held before the reset.  (An image shorter than 4096 bytes has its bytes at
\* their offsets and zero everywhere behind them.)
C12_ResetMemoryIsImage ==
    (last.op = "reset" /\ rom # <<>>)
        => LET img == rom[1]
               n   == IF img.len < 4096 THEN img.len ELSE 4096
           IN  /\ \A o \in DOMAIN memory.nz : o < n /\ memory.nz[o] = ByteAt(img, o)
               /\ \A o \in DOMAIN img.nz : o < n => ByteAt(memory, o) = img.nz[o]
               /\ img.len >= 4096
                     => GetSlice(memory, 0, 4096) = GetSlice(img, 0, 4096)

\* reset() replaced a memory that held other bytes by the leading 4096 bytes
\* of an image of 4100 bytes
C12_Witness ==
    /\ last.op = "reset" /\ last.dirty
    /\ rom = <<ImgLong>>
    /\ ByteAt(memory, 4095) = 9
    /\ ByteAt(memory, 4096) = 0
    /\ memory.len = MemSize

\* C13: every processor step advances PC to (PC + 4) mod 2^32 (from
\* 0xFFFFFFFC it wraps to 0) and increments the Cycle Counter by exactly 1,
\* for every fetched word, recognised or not.
C13_PcAndCycles ==
    last.op = "cpu_step"
        => /\ regs[32] = Add32(last.regs[32], W(0, 4))
           /\ last.regs[32] = W(65535, 65532) => regs[32] = W(0, 0)
           /\ cycles = last.cycles + 1
           /\ IsU32(regs[32])

\* two steps were taken from PC = 0xFFFFFFFC: PC wrapped to 0 and went on to 4
C13_Witness ==
    /\ last.op = "cpu_step"
    /\ last.regs[32] = W(0, 0)
    /\ regs[32] = W(0, 4)
    /\ last.cycles = 1
    /\ cycles = 2

\* C14: load word sets regs[rt] = read32((regs[rs] + sign_extend16(imm)) mod
\* 2^32), the big-endian word at that address, and changes no memory; when
\* the effective address is outside RAM the loaded value is 0, with no error.
C14_LoadWord ==
    (last.op = "cpu_step" /\ OpcodeOf(last.instr) = 35)
        => LET rs   == RsOf(last.instr)
               rt   == RtOf(last.instr)
               addr == Add32(last.regs[rs], SignExt16(ImmOf(last.instr)))
               off  == OffsetOf(addr)
               m    == last.memory
           IN  /\ regs[rt] =
                     IF off >= 0 /\ off < m.len - 3
                     THEN <<ByteAt(m, off) * 256 + ByteAt(m, off + 1),
                            ByteAt(m, off + 2) * 256 + ByteAt(m, off + 3)>>
                     ELSE W(0, 0)
               /\ memory = last.memory
               /\ last.exc = "none"

\* a load from 8(r1) with r1 = 0x80000000 fetched the data word into r2, and
\* the next step went on
C14_Witness ==
    /\ last.op = "cpu_step"
    /\ last.instr = ADD_r3_r0_r0
    /\ read_word(memory, ENTRY_PC) = LW_r2_8_r1
    /\ last.regs[1] = KSEG_BASE
    /\ last.regs[2] = DATA_WORD
    /\ regs[2] = DATA_WORD

\* a load from 8(r1) with r1 = 0xFFFFFFFF, effective address 7, outside RAM,
\* put 0 over a nonzero r2
C14_WitnessOutside ==
    /\ last.op = "cpu_step"
    /\ last.instr = LW_r2_8_r1
    /\ last.regs[1] = W(65535, 65535)
    /\ last.regs[2] = W(0, 1)
    /\ regs[2] = W(0, 0)

\* C15: add (opcode 0, function code 0x20) sets regs[rd] = (regs[rs] +
\* regs[rt]) mod 2^32 and changes no other general-purpose register and no
\* memory.
C15_Add ==
    (last.op = "cpu_step" /\ OpcodeOf(last.instr) = 0 /\ FunctOf(last.instr) = 32)
        => LET rs == RsOf(last.instr)
               rt == RtOf(last.instr)
               rd == RdOf(last.instr)
           IN  /\ regs[rd] = Add32(last.regs[rs], last.regs[rt])
               /\ \A i \in 0..31 : i # rd => regs[i] = last.regs[i]
               /\ memory = last.memory
               /\ last.exc = "none"

\* add r3, r1, r2 with r1 = 0xFFFFFFFF and r2 = 0xFFFFFFFF gave 0xFFFFFFFE
C15_Witness ==
    /\ last.op = "cpu_step"
    /\ last.instr = ADD_r3_r1_r2
    /\ last.regs[1] = W(65535, 65535)
    /\ last.regs[2] = W(65535, 65535)
    /\ regs[3] = W(65535, 65534)
    /\ regs[1] = W(65535, 65535)

\* C16: reset() discards the processor state entirely: after any sequence of
\* operations it leaves all 32 general-purpose registers at 0, the Cycle
\* Counter at 0 and memory of the same (configured) size; when no image was
\* ever loaded, PC is the hardware reset vector 0xBFC00000 and every memory
\* byte is zero.
C16_ResetDiscards ==
    last.op = "reset"
        => /\ DOMAIN regs = 0..32
           /\ \A i \in 0..31 : regs[i] = W(0, 0)
           /\ cycles = 0
           /\ memory.len = MemSize
           /\ rom = <<>> => (regs[32] = RESET_VECTOR /\ DOMAIN memory.nz = {})

\* C17: register 0 is not special-cased: add-immediate, load word and add
\* with destination index 0 store their result in regs[0], so regs[0] can
\* hold a nonzero value, and later instructions read that value.
C17_RegisterZeroWritable ==
    last.op = "cpu_step"
        => LET instr == last.instr
               rs    == RsOf(instr)
               rt    == RtOf(instr)
               isAdd == OpcodeOf(instr) = 0 /\ FunctOf(instr) = 32
               ea    == Add32(last.regs[rs], SignExt16(ImmOf(instr)))
           IN  /\ (OpcodeOf(instr) = 8 /\ rt = 0) => regs[0] = ea
               /\ (OpcodeOf(instr) = 35 /\ rt = 0)
                     => regs[0] = read_word(last.memory, ea)
               /\ (isAdd /\ RdOf(instr) = 0)
                     => regs[0] = Add32(last.regs[rs], last.regs[rt])
               /\ (isAdd /\ rs = 0 /\ rt = 0 /\ RdOf(instr) # 0)
                     => /\ regs[RdOf(instr)] = Add32(last.regs[0], last.regs[0])
                        /\ regs[0] = last.regs[0]

\* addi r0, r0, 5 left 5 in register 0, and the following add r3, r0, r0
\* read it: r3 = 10
C17_Witness ==
    /\ last.op = "cpu_step"
    /\ last.instr = ADD_r3_r0_r0
    /\ read_word(memory, ENTRY_PC) = ADDI_r0_r0_5
    /\ last.regs[0] = W(0, 5)
    /\ regs[0] = W(0, 5)
    /\ regs[3] = W(0, 10)

\* C18: in every state reachable from a fresh machine by load_image, reset
\* and step, each of the 32 general-purpose registers and PC is an integer in
\* [0, 2^32); no instruction writes PC through a register destination field:
\* the destination indices are confined to 0..31 and PC after an executed
\* step is the previous PC + 4, whatever the instruction stored.
C18_RegistersInRange ==
    /\ [](/\ DOMAIN regs = 0..32
          /\ \A i \in 0..32 : IsU32(regs[i]))
    /\ [][ (last'.op = "step" /\ last'.ran)
           => /\ RtOf(last'.instr) \in 0..31
              /\ RdOf(last'.instr) \in 0..31
              /\ regs'[32] = Add32(regs[32], W(0, 4)) ]_vars

\* after reset, load_rom and three steps: addi r1, r0, -1 left 0xFFFFFFFF,
\* add r31, r1, r1 overflowed, addi r31, r31, 0x7FFF overflowed again into
\* the highest-numbered register, and PC is 0x8000000C
C18_Witness ==
    /\ last.op = "step" /\ last.ran
    /\ rom = <<ImgNeg>>
    /\ regs[1] = W(65535, 65535)
    /\ regs[31] = W(0, 32765)
    /\ regs[32] = W(32768, 12)
    /\ cycles = 3

\* C19: session step() changes nothing (registers, PC, cycles, memory,
\* cosmetic field) while the session is not running or is paused; running is
\* false in a fresh session, is set true only by reset() (load_image alone
\* does not set it), and once true is never set false again.
C19_StepGatedByRunning ==
    /\ ~running
    /\ [][ (last'.op = "step" /\ (~running \/ paused))
           => /\ regs' = regs
              /\ memory' = memory
              /\ cycles' = cycles
              /\ mario_hat_color' = mario_hat_color
              /\ ~last'.ran ]_vars
    /\ [][ running' # running => (running' /\ last'.op = "reset") ]_vars
    /\ [][ last'.op = "load_rom" => running' = running ]_vars

\* a step was asked of a running, paused session with the health cheat on,
\* after one executed step: nothing was executed and nothing was poked
C19_Witness ==
    /\ last.op = "step" /\ ~last.ran /\ last.exc = "none"
    /\ running /\ paused
    /\ cheats["Infinite Health"]
    /\ cycles = 1
    /\ read_word(memory, HEALTH_ADDR) = W(0, 0)

\* a step was asked of a session that holds an image but was never reset
C19_WitnessNotRunning ==
    /\ last.op = "step" /\ ~last.ran
    /\ ~running /\ ~paused
    /\ rom # <<>>
    /\ cycles = 0

\* C20: restore changes only the register file, memory and cosmetic field;
\* the plugin flags, cheat flags, running / paused flags and the stored image
\* are not part of the snapshot and keep the values they had immediately
\* before the restore.
C20_RestoreFrame ==
    [][ last'.op = "load_state"
        => /\ plugins' = plugins
           /\ cheats' = cheats
           /\ running' = running
           /\ paused' = paused
           /\ rom' = rom
           /\ savfile' = savfile ]_vars

\* a snapshot taken before the session was paused, the cheat enabled and an
\* image loaded was restored: the pause, the cheat and the image are still
\* there
C20_Witness ==
    /\ RestoredSaved
    /\ paused
    /\ cheats["Infinite Health"]
    /\ rom # <<>>
    /\ regs[32] = RESET_VECTOR

=============================================================================
